---- MODULE Spec2Model ----
(***************************************************************************)
(* Model of the tile download worker of copernicus30m                      *)
(* (src/download_worker.py, class DownloadWorker).                         *)
(*                                                                         *)
(* One job is modelled: run() executes step by step on the worker thread   *)
(* while stop() may be called from the GUI thread between any two steps.   *)
(* Every poll of _is_stopped, every remote operation (HEAD, GET, chunk     *)
(* read) and every file operation is a step of its own, so that stop() can *)
(* fall between a poll and the operation that follows it.                  *)
(*                                                                         *)
(* Remote operations are calls into botocore: each one either returns, or  *)
(* raises botocore.exceptions.ClientError (caught per tile), or raises     *)
(* some other exception (caught only by the outer "except Exception").     *)
(***************************************************************************)
EXTENDS Integers, Sequences, FiniteSets, TLC

\* ------------------------------------------------------------------ bounds
\* Largest number of tiles of a job.
MaxTiles == 2

\* Largest number of chunks a remote object is streamed in.
MaxChunks == 2

\* The tile grid: latitudes -MaxLat..MaxLat-1, longitudes -MaxLon..MaxLon-1.
MaxLat == 90
MaxLon == 180

\* Largest number of workers the controller constructs.
MaxJobs == 2

\* Number of tiles of the map the user clicks on.
MaxMapTiles == 1

\* ------------------------------------------------------- program constants
\* chunk_size=1024 * 1024 of iter_chunks.
ChunkSize == 1024 * 1024

\* Sizes of remote objects: one of exactly one full chunk and, for each chunk
\* count c in 1..MaxChunks, one whose last chunk holds a single byte.
SizeChoices == {ChunkSize} \cup {(c - 1) * ChunkSize + 1 : c \in 1..MaxChunks}

\* Outcomes of a call into botocore (head_object, get_object, a chunk read).
RemoteOutcomes == {"ok", "ClientError", "OtherError"}

\* Outcomes of open(local_path, 'wb').
OpenOutcomes == {"ok", "OSError"}

\* Outcomes of f.write(chunk).
WriteOutcomes == {"ok", "OSError"}

VARIABLES
    tiles,          \* self.tiles: the job's tiles, in order
    rsize,          \* size in bytes of each tile's remote object
    fexists,        \* os.path.exists(local_path) of each tile
    fbytes,         \* bytes held by each tile's local file
    pc,             \* position of run()
    i,              \* index of the tile the current loop is at (1-based)
    is_stopped,     \* self._is_stopped
    grand_total_size,
    cumulative_bytes_downloaded,
    pos,            \* bytes of the current streaming body consumed so far
    chunk,          \* length of the chunk in hand (0 when none)
    last_status,    \* text of the last job-level tile_finished emission
    tile_status,    \* last per-tile text emitted for each tile
    file_progress,  \* last file_progress emission <<index, total>>
    last_progress,  \* last total_progress_updated emission <<cumulative, total>>
    error_emits,    \* error_occurred emissions of line 109, per tile
    critical_emits, \* error_occurred emissions of line 115
    finished_emits, \* finished emissions
    raised_at,      \* operation whose exception reached "except Exception"
    probe_failed,   \* tiles whose head_object raised
    net,            \* remote operations issued: heads, gets, chunk reads
    after_stop,     \* operations performed after stop() set the flag
    stopped_in_size, \* stop() was called during the size calculation
    existed,        \* os.path.exists(local_path) of each tile when the job began
    overwrite_mode  \* answer of _handle_existing_files for the job

\* The state of DownloadWorker.run() and of the files it works on.
jobvars == <<tiles, rsize, fexists, fbytes, pc, i, is_stopped, grand_total_size,
             cumulative_bytes_downloaded, pos, chunk, last_status, tile_status,
             file_progress, last_progress, error_emits, critical_emits,
             finished_emits, raised_at, probe_failed, net, after_stop,
             stopped_in_size, existed, overwrite_mode>>

VARIABLES
    worker,         \* self.worker of the controller: 0 for None, else a worker
    t_pc,           \* position of each worker's thread
    t_stopped,      \* _is_stopped of each worker
    t_connected,    \* worker.finished is connected to on_download_finished
    t_outcome,      \* how each worker's run() left its loops
    events,         \* finished emissions posted to the controller's thread
    ui,             \* the event loops open on the controller's thread
    is_downloading, \* the view is in its downloading state
    msg,            \* terminal message shown for each worker
    rejected,       \* start_download returned at its guard (line 196)
    quit_called,    \* QApplication.quit() was called
    work_after_quit, \* a worker changed a file after quit() was called
    selected_tiles, \* SelectionModel._selected_tiles
    download_button_enabled, \* download_button.isEnabled()
    highlighted,    \* the tiles highlighted on the map
    selection_changed, \* payloads the last call into the model emitted
    t_tiles         \* self.tiles of each worker

\* The state of the controller, the view and the worker threads.
appvars == <<worker, t_pc, t_stopped, t_connected, t_outcome, events, ui,
             is_downloading, msg, rejected, quit_called, work_after_quit,
             selected_tiles, download_button_enabled, highlighted,
             selection_changed, t_tiles>>

\* The selection and what the view derives from it.
selvars == <<selected_tiles, download_button_enabled, highlighted,
             selection_changed, t_tiles>>

\* The map's highlights and the signal of the model.
mapvars == <<highlighted, selection_changed>>

VARIABLES
    lat,            \* latitude of the tile whose key is formed
    lon,            \* longitude of that tile
    s3_key,         \* format_tile_s3_key(lat, lon), <<>> before the call
    file_name,      \* os.path.basename(s3_key)
    tile_name       \* the name of the tile in the list of the view

\* The inputs and results of the key formatting.
keyvars == <<lat, lon, s3_key, file_name, tile_name>>

vars == <<jobvars, appvars, keyvars>>

\* What a job is given when it starts; run() and stop() never change it.
given == <<existed, overwrite_mode>>

\* ----------------------------------------------------------------- helpers
N == Len(tiles)

\* The tile the current loop iteration is at.
cur == tiles[i]

\* Positions of run() that belong to the size calculation (lines 43-59).
SizePhase == {"size_poll", "size_head", "size_done"}

\* iter_chunks(chunk_size): the next chunk holds chunk_size bytes, the last
\* one what is left.
NextChunkLen(size, p) == IF size - p < ChunkSize THEN size - p ELSE ChunkSize

\* grand_total_size += int(response.get('ContentLength', 0))
ProbeAddOverwrite(total, content_length) == content_length
ProbeAdd(total, content_length) == total + content_length

\* cumulative_bytes_downloaded += chunk_size
AddBytesOverwrite(cum, n) == n
AddBytes(cum, n) == cum + n

\* os.remove(local_path)
KeepFile(ex, t) == ex
RemoveFile(ex, t) == [ex EXCEPT ![t] = FALSE]

\* "if self._is_stopped:" inside the chunk loop.
ChunkPollIgnoresStop(flag) == FALSE
ChunkPollStops(flag) == flag

\* "break" of the start-of-tile poll: the loop is left, the finally clause
\* is next.
TilePollFallsThrough == "tile_exists"
TilePollBreak == "finally"

\* Counting one operation of the given kind in net and, when the flag is
\* already set, in after_stop.
Count(rec, kind) == [rec EXCEPT ![kind] = @ + 1]
CountAfterStop(rec, kind) == IF is_stopped THEN Count(rec, kind) ELSE rec

NoOps == [head |-> 0, get |-> 0, read |-> 0, write |-> 0]

\* _handle_existing_files: 'overwrite' when no file of the selection exists,
\* otherwise the button the user clicks ("Cancel Download" starts no job).
HandleExistingFiles(ex) ==
    IF \A t \in DOMAIN ex : ~ex[t] THEN {"overwrite"} ELSE {"overwrite", "skip"}

\* No key has been formed.
KeyIdle ==
    /\ lat = 0
    /\ lon = 0
    /\ s3_key = <<>>
    /\ file_name = <<>>
    /\ tile_name = <<>>

\* Workers are numbered in the order they are constructed.
Workers == 1..MaxJobs

\* AppController.__init__ and MainWindow.__init__: no worker, the view idle.
AppIdle ==
    /\ worker = 0
    /\ t_pc = [w \in Workers |-> "none"]
    /\ t_stopped = [w \in Workers |-> FALSE]
    /\ t_connected = [w \in Workers |-> FALSE]
    /\ t_outcome = [w \in Workers |-> "none"]
    /\ events = <<>>
    /\ ui = <<>>
    /\ is_downloading = FALSE
    /\ msg = [w \in Workers |-> "none"]
    /\ rejected = FALSE
    /\ quit_called = FALSE
    /\ work_after_quit = FALSE
    /\ selected_tiles = {}
    /\ download_button_enabled = FALSE
    /\ highlighted = {}
    /\ selection_changed = <<>>
    /\ t_tiles = [w \in Workers |-> {}]

\* -------------------------------------------------------------------- Init
Init ==
    /\ \E n \in 0..MaxTiles :
         /\ tiles = [k \in 1..n |-> k]
         /\ rsize \in [1..n -> SizeChoices]
         /\ fexists \in [1..n -> BOOLEAN]
         /\ tile_status = [k \in 1..n |-> "none"]
         /\ error_emits = [k \in 1..n |-> 0]
    /\ fbytes = [k \in DOMAIN fexists |-> IF fexists[k] THEN rsize[k] ELSE 0]
    /\ pc = "start"
    /\ i = 1
    /\ is_stopped = FALSE
    /\ grand_total_size = 0
    /\ cumulative_bytes_downloaded = 0
    /\ pos = 0
    /\ chunk = 0
    /\ last_status = "none"
    /\ file_progress = <<0, 0>>
    /\ last_progress = <<0, 0>>
    /\ critical_emits = 0
    /\ finished_emits = 0
    /\ raised_at = "none"
    /\ probe_failed = {}
    /\ net = NoOps
    /\ after_stop = NoOps
    /\ stopped_in_size = FALSE
    /\ existed = fexists
    /\ overwrite_mode \in HandleExistingFiles(fexists)
    /\ AppIdle
    /\ KeyIdle

\* ------------------------------------------------------------------- run()
\* Line 40 and line 43: the S3 client is built; when that raises, the outer
\* handler takes over, otherwise the first status text is emitted and the
\* size calculation starts.
CreateClient ==
    /\ pc = "start"
    /\ \E out \in {"ok", "error"} :
         IF out = "ok"
         THEN /\ last_status' = "Calculating total download size..."
              /\ grand_total_size' = 0
              /\ i' = 1
              /\ pc' = "size_poll"
              /\ UNCHANGED raised_at
         ELSE /\ raised_at' = "client"
              /\ pc' = "critical"
              /\ UNCHANGED <<last_status, grand_total_size, i>>
    /\ UNCHANGED <<tiles, rsize, fexists, fbytes, is_stopped,
                   cumulative_bytes_downloaded, pos, chunk, tile_status,
                   file_progress, last_progress, error_emits, critical_emits,
                   finished_emits, probe_failed, net, after_stop,
                   stopped_in_size>>
    /\ UNCHANGED <<given, appvars, keyvars>>

\* The exists() test of the size loop left out: every tile is probed.
SizePollProbesAll ==
    /\ pc = "size_poll"
    /\ IF i > N \/ is_stopped
       THEN pc' = "size_done" /\ i' = i
       ELSE pc' = "size_head" /\ i' = i
    /\ UNCHANGED <<tiles, rsize, fexists, fbytes, is_stopped, grand_total_size,
                   cumulative_bytes_downloaded, pos, chunk, last_status,
                   tile_status, file_progress, last_progress, error_emits,
                   critical_emits, finished_emits, raised_at, probe_failed,
                   net, after_stop, stopped_in_size>>
    /\ UNCHANGED <<given, appvars, keyvars>>

\* The size loop left after its first tile: the later tiles are not visited.
SizePollFirstOnly ==
    /\ pc = "size_poll"
    /\ IF i > 1 \/ i > N \/ is_stopped
       THEN pc' = "size_done" /\ i' = i
       ELSE IF fexists[cur]
            THEN pc' = "size_poll" /\ i' = i + 1
            ELSE pc' = "size_head" /\ i' = i
    /\ UNCHANGED <<tiles, rsize, fexists, fbytes, is_stopped, grand_total_size,
                   cumulative_bytes_downloaded, pos, chunk, last_status,
                   tile_status, file_progress, last_progress, error_emits,
                   critical_emits, finished_emits, raised_at, probe_failed,
                   net, after_stop, stopped_in_size>>
    /\ UNCHANGED <<given, appvars, keyvars>>

\* Lines 45-52: head of the size loop. The loop ends when the tiles are
\* exhausted or the flag is set; a tile whose file exists is passed over.
SizePoll ==
    /\ pc = "size_poll"
    /\ IF i > N \/ is_stopped
       THEN pc' = "size_done" /\ i' = i
       ELSE IF fexists[cur]
            THEN pc' = "size_poll" /\ i' = i + 1
            ELSE pc' = "size_head" /\ i' = i
    /\ UNCHANGED <<tiles, rsize, fexists, fbytes, is_stopped, grand_total_size,
                   cumulative_bytes_downloaded, pos, chunk, last_status,
                   tile_status, file_progress, last_progress, error_emits,
                   critical_emits, finished_emits, raised_at, probe_failed,
                   net, after_stop, stopped_in_size>>
    /\ UNCHANGED <<given, appvars, keyvars>>

\* Lines 53-57: head_object. ClientError is swallowed, any other exception
\* leaves the try block.
SizeHead ==
    /\ pc = "size_head"
    /\ net' = Count(net, "head")
    /\ after_stop' = CountAfterStop(after_stop, "head")
    /\ \E out \in RemoteOutcomes :
         CASE out = "ok" ->
                /\ grand_total_size' = ProbeAdd(grand_total_size, rsize[cur])
                /\ i' = i + 1
                /\ pc' = "size_poll"
                /\ UNCHANGED <<probe_failed, raised_at>>
           [] out = "ClientError" ->
                /\ probe_failed' = probe_failed \cup {cur}
                /\ i' = i + 1
                /\ pc' = "size_poll"
                /\ UNCHANGED <<grand_total_size, raised_at>>
           [] out = "OtherError" ->
                /\ probe_failed' = probe_failed \cup {cur}
                /\ raised_at' = "head"
                /\ pc' = "critical"
                /\ UNCHANGED <<grand_total_size, i>>
    /\ UNCHANGED <<tiles, rsize, fexists, fbytes, is_stopped,
                   cumulative_bytes_downloaded, pos, chunk, last_status,
                   tile_status, file_progress, last_progress, error_emits,
                   critical_emits, finished_emits, stopped_in_size>>
    /\ UNCHANGED <<given, appvars, keyvars>>

\* Lines 59-66: after the size loop. With the flag set the status text and
\* finished are emitted and run() returns, which runs the finally clause;
\* otherwise the download loop is set up.
SizeDone ==
    /\ pc = "size_done"
    /\ IF is_stopped
       THEN /\ last_status' = "Download cancelled during size calculation."
            /\ finished_emits' = finished_emits + 1
            /\ pc' = "finally"
            /\ UNCHANGED <<cumulative_bytes_downloaded, i>>
       ELSE /\ cumulative_bytes_downloaded' = 0
            /\ i' = 1
            /\ pc' = "tile_poll"
            /\ UNCHANGED <<last_status, finished_emits>>
    /\ UNCHANGED <<tiles, rsize, fexists, fbytes, is_stopped, grand_total_size,
                   pos, chunk, tile_status, file_progress, last_progress,
                   error_emits, critical_emits, raised_at, probe_failed, net,
                   after_stop, stopped_in_size>>
    /\ UNCHANGED <<given, appvars, keyvars>>

\* Lines 68-73: head of the download loop: the start-of-tile poll, then the
\* file_progress emission.
TilePoll ==
    /\ pc = "tile_poll"
    /\ IF i > N
       THEN pc' = "finally" /\ UNCHANGED <<last_status, file_progress>>
       ELSE IF is_stopped
            THEN /\ last_status' = "Download cancelled by user."
                 /\ pc' = TilePollBreak
                 /\ UNCHANGED file_progress
            ELSE /\ file_progress' = <<i, N>>
                 /\ pc' = "tile_exists"
                 /\ UNCHANGED last_status
    /\ UNCHANGED <<tiles, rsize, fexists, fbytes, i, is_stopped,
                   grand_total_size, cumulative_bytes_downloaded, pos, chunk,
                   tile_status, last_progress, error_emits, critical_emits,
                   finished_emits, raised_at, probe_failed, net, after_stop,
                   stopped_in_size>>
    /\ UNCHANGED <<given, appvars, keyvars>>

\* The existence check left out: every tile is downloaded.
TileExistsIgnored ==
    /\ pc = "tile_exists"
    /\ tile_status' = [tile_status EXCEPT ![cur] = "Downloading"]
    /\ i' = i
    /\ pc' = "get"
    /\ UNCHANGED <<tiles, rsize, fexists, fbytes, is_stopped, grand_total_size,
                   cumulative_bytes_downloaded, pos, chunk, last_status,
                   file_progress, last_progress, error_emits, critical_emits,
                   finished_emits, raised_at, probe_failed, net, after_stop,
                   stopped_in_size>>
    /\ UNCHANGED <<given, appvars, keyvars>>

\* Lines 75-84: an existing file is skipped ("continue" goes straight to the
\* next start-of-tile poll), otherwise the download of the tile is announced.
TileExists ==
    /\ pc = "tile_exists"
    /\ IF fexists[cur]
       THEN /\ tile_status' = [tile_status EXCEPT ![cur] = "Skipped (already exists)"]
            /\ i' = i + 1
            /\ pc' = "tile_poll"
       ELSE /\ tile_status' = [tile_status EXCEPT ![cur] = "Downloading"]
            /\ i' = i
            /\ pc' = "get"
    /\ UNCHANGED <<tiles, rsize, fexists, fbytes, is_stopped, grand_total_size,
                   cumulative_bytes_downloaded, pos, chunk, last_status,
                   file_progress, last_progress, error_emits, critical_emits,
                   finished_emits, raised_at, probe_failed, net, after_stop,
                   stopped_in_size>>
    /\ UNCHANGED <<given, appvars, keyvars>>

\* Lines 85-86: get_object. ClientError is handled at lines 108-109, any
\* other exception leaves the loop.
GetObject ==
    /\ pc = "get"
    /\ net' = Count(net, "get")
    /\ after_stop' = CountAfterStop(after_stop, "get")
    /\ \E out \in RemoteOutcomes :
         CASE out = "ok" ->
                /\ pos' = 0
                /\ pc' = "open"
                /\ UNCHANGED <<tile_status, error_emits, raised_at>>
           [] out = "ClientError" ->
                /\ error_emits' = [error_emits EXCEPT ![cur] = @ + 1]
                /\ tile_status' = [tile_status EXCEPT ![cur] = "Error"]
                /\ pc' = "tile_end"
                /\ UNCHANGED <<pos, raised_at>>
           [] out = "OtherError" ->
                /\ raised_at' = "get"
                /\ pc' = "critical"
                /\ UNCHANGED <<pos, tile_status, error_emits>>
    /\ UNCHANGED <<tiles, rsize, fexists, fbytes, i, is_stopped,
                   grand_total_size, cumulative_bytes_downloaded, chunk,
                   last_status, file_progress, last_progress, critical_emits,
                   finished_emits, probe_failed, stopped_in_size>>
    /\ UNCHANGED <<given, appvars, keyvars>>

\* Line 88: open(local_path, 'wb') creates the file empty, or raises OSError
\* when the directory cannot be written.
OpenFile ==
    /\ pc = "open"
    /\ \E out \in OpenOutcomes :
         IF out = "ok"
         THEN /\ fexists' = [fexists EXCEPT ![cur] = TRUE]
              /\ fbytes' = [fbytes EXCEPT ![cur] = 0]
              /\ pc' = "read"
              /\ UNCHANGED raised_at
         ELSE /\ raised_at' = "open"
              /\ pc' = "critical"
              /\ UNCHANGED <<fexists, fbytes>>
    /\ UNCHANGED <<tiles, rsize, i, is_stopped, grand_total_size,
                   cumulative_bytes_downloaded, pos, chunk, last_status,
                   tile_status, file_progress, last_progress, error_emits,
                   critical_emits, finished_emits, probe_failed, net,
                   after_stop, stopped_in_size>>
    /\ UNCHANGED <<given, appvars, keyvars>>

\* Line 90: the iterator fetches the next chunk from the remote. The with
\* block closes the file when an exception passes through it; the file is
\* left as it is.
ReadChunk ==
    /\ pc = "read"
    /\ pos < rsize[cur]
    /\ net' = Count(net, "read")
    /\ after_stop' = CountAfterStop(after_stop, "read")
    /\ \E out \in RemoteOutcomes :
         CASE out = "ok" ->
                /\ chunk' = NextChunkLen(rsize[cur], pos)
                /\ pos' = pos + chunk'
                /\ pc' = "chunk_poll"
                /\ UNCHANGED <<tile_status, error_emits, raised_at>>
           [] out = "ClientError" ->
                /\ error_emits' = [error_emits EXCEPT ![cur] = @ + 1]
                /\ tile_status' = [tile_status EXCEPT ![cur] = "Error"]
                /\ pc' = "tile_end"
                /\ UNCHANGED <<chunk, pos, raised_at>>
           [] out = "OtherError" ->
                /\ raised_at' = "stream"
                /\ pc' = "critical"
                /\ UNCHANGED <<chunk, pos, tile_status, error_emits>>
    /\ UNCHANGED <<tiles, rsize, fexists, fbytes, i, is_stopped,
                   grand_total_size, cumulative_bytes_downloaded, last_status,
                   file_progress, last_progress, critical_emits,
                   finished_emits, probe_failed, stopped_in_size>>
    /\ UNCHANGED <<given, appvars, keyvars>>

\* Lines 105-106: the iterator is exhausted, the else clause of the for loop
\* reports the tile finished.
EndOfStream ==
    /\ pc = "read"
    /\ pos = rsize[cur]
    /\ tile_status' = [tile_status EXCEPT ![cur] = "Finished"]
    /\ pc' = "tile_end"
    /\ UNCHANGED <<tiles, rsize, fexists, fbytes, i, is_stopped,
                   grand_total_size, cumulative_bytes_downloaded, pos, chunk,
                   last_status, file_progress, last_progress, error_emits,
                   critical_emits, finished_emits, raised_at, probe_failed,
                   net, after_stop, stopped_in_size>>
    /\ UNCHANGED <<given, appvars, keyvars>>

\* The else clause of the for loop taken for a statement after the loop: the
\* tile is reported finished after the break as well.
ChunkPollThenFinished ==
    /\ pc = "chunk_poll"
    /\ IF ChunkPollStops(is_stopped)
       THEN /\ fexists' = RemoveFile(fexists, cur)
            /\ fbytes' = [fbytes EXCEPT ![cur] = IF fexists'[cur] THEN @ ELSE 0]
            /\ tile_status' = [tile_status EXCEPT ![cur] = "Finished"]
            /\ chunk' = 0
            /\ pc' = "tile_end"
       ELSE /\ pc' = "write"
            /\ UNCHANGED <<fexists, fbytes, tile_status, chunk>>
    /\ UNCHANGED <<tiles, rsize, i, is_stopped, grand_total_size,
                   cumulative_bytes_downloaded, pos, last_status,
                   file_progress, last_progress, error_emits, critical_emits,
                   finished_emits, raised_at, probe_failed, net, after_stop,
                   stopped_in_size>>
    /\ UNCHANGED <<given, appvars, keyvars>>

\* Lines 92-98: the poll inside the chunk loop, made with a chunk in hand.
\* With the flag set the file is closed and removed and the loop is left.
ChunkPoll ==
    /\ pc = "chunk_poll"
    /\ IF ChunkPollStops(is_stopped)
       THEN /\ fexists' = RemoveFile(fexists, cur)
            /\ fbytes' = [fbytes EXCEPT ![cur] = IF fexists'[cur] THEN @ ELSE 0]
            /\ tile_status' = [tile_status EXCEPT ![cur] = "Cancelled"]
            /\ chunk' = 0
            /\ pc' = "tile_end"
       ELSE /\ pc' = "write"
            /\ UNCHANGED <<fexists, fbytes, tile_status, chunk>>
    /\ UNCHANGED <<tiles, rsize, i, is_stopped, grand_total_size,
                   cumulative_bytes_downloaded, pos, last_status,
                   file_progress, last_progress, error_emits, critical_emits,
                   finished_emits, raised_at, probe_failed, net, after_stop,
                   stopped_in_size>>
    /\ UNCHANGED <<given, appvars, keyvars>>

\* Lines 100-103: the chunk is written, the counter updated and the byte
\* progress emitted. When write raises (a full disk) the with block closes
\* the file, which is left as it is, and the exception leaves the loop.
WriteChunk ==
    /\ pc = "write"
    /\ after_stop' = CountAfterStop(after_stop, "write")
    /\ net' = Count(net, "write")
    /\ chunk' = 0
    /\ \E out \in WriteOutcomes :
         IF out = "ok"
         THEN /\ fbytes' = [fbytes EXCEPT ![cur] = @ + chunk]
              /\ cumulative_bytes_downloaded' =
                    AddBytes(cumulative_bytes_downloaded, chunk)
              /\ last_progress' = <<cumulative_bytes_downloaded', grand_total_size>>
              /\ pc' = "read"
              /\ UNCHANGED raised_at
         ELSE /\ raised_at' = "write"
              /\ pc' = "critical"
              /\ UNCHANGED <<fbytes, cumulative_bytes_downloaded, last_progress>>
    /\ UNCHANGED <<tiles, rsize, fexists, i, is_stopped, grand_total_size, pos,
                   last_status, tile_status, file_progress, error_emits,
                   critical_emits, finished_emits, probe_failed,
                   stopped_in_size>>
    /\ UNCHANGED <<given, appvars, keyvars>>

\* The poll at the end of an iteration waiting instead of leaving the loop.
TileEndSpins ==
    /\ pc = "tile_end"
    /\ IF is_stopped
       THEN pc' = "tile_end" /\ i' = i
       ELSE pc' = "tile_poll" /\ i' = i + 1
    /\ UNCHANGED <<tiles, rsize, fexists, fbytes, is_stopped, grand_total_size,
                   cumulative_bytes_downloaded, pos, chunk, last_status,
                   tile_status, file_progress, last_progress, error_emits,
                   critical_emits, finished_emits, raised_at, probe_failed,
                   net, after_stop, stopped_in_size>>
    /\ UNCHANGED <<given, appvars, keyvars>>

\* Lines 111-112: the poll at the end of a tile's iteration.
TileEnd ==
    /\ pc = "tile_end"
    /\ IF is_stopped
       THEN pc' = "finally" /\ i' = i
       ELSE pc' = "tile_poll" /\ i' = i + 1
    /\ UNCHANGED <<tiles, rsize, fexists, fbytes, is_stopped, grand_total_size,
                   cumulative_bytes_downloaded, pos, chunk, last_status,
                   tile_status, file_progress, last_progress, error_emits,
                   critical_emits, finished_emits, raised_at, probe_failed,
                   net, after_stop, stopped_in_size>>
    /\ UNCHANGED <<given, appvars, keyvars>>

\* The handler placed inside the loop: the loop goes on after the report.
CriticalResumesLoop ==
    /\ pc = "critical"
    /\ critical_emits' = critical_emits + 1
    /\ pc' = "tile_end"
    /\ UNCHANGED <<tiles, rsize, fexists, fbytes, i, is_stopped,
                   grand_total_size, cumulative_bytes_downloaded, pos, chunk,
                   last_status, tile_status, file_progress, last_progress,
                   error_emits, finished_emits, raised_at, probe_failed, net,
                   after_stop, stopped_in_size>>
    /\ UNCHANGED <<given, appvars, keyvars>>

\* Lines 114-115: the outer handler reports the exception.
Critical ==
    /\ pc = "critical"
    /\ critical_emits' = critical_emits + 1
    /\ pc' = "finally"
    /\ UNCHANGED <<tiles, rsize, fexists, fbytes, i, is_stopped,
                   grand_total_size, cumulative_bytes_downloaded, pos, chunk,
                   last_status, tile_status, file_progress, last_progress,
                   error_emits, finished_emits, raised_at, probe_failed, net,
                   after_stop, stopped_in_size>>
    /\ UNCHANGED <<given, appvars, keyvars>>

\* Lines 116-117: the finally clause emits finished; run() has returned.
Finally ==
    /\ pc = "finally"
    /\ finished_emits' = finished_emits + 1
    /\ pc' = "done"
    /\ UNCHANGED <<tiles, rsize, fexists, fbytes, i, is_stopped,
                   grand_total_size, cumulative_bytes_downloaded, pos, chunk,
                   last_status, tile_status, file_progress, last_progress,
                   error_emits, critical_emits, raised_at, probe_failed, net,
                   after_stop, stopped_in_size>>
    /\ UNCHANGED <<given, appvars, keyvars>>

\* ------------------------------------------------------------------ stop()
\* stop() as a toggle: a second call clears the flag.
StopToggles ==
    /\ pc # "done"
    /\ is_stopped' = ~is_stopped
    /\ stopped_in_size' = (pc \in SizePhase)
    /\ UNCHANGED <<tiles, rsize, fexists, fbytes, pc, i, grand_total_size,
                   cumulative_bytes_downloaded, pos, chunk, last_status,
                   tile_status, file_progress, last_progress, error_emits,
                   critical_emits, finished_emits, raised_at, probe_failed,
                   net, after_stop>>
    /\ UNCHANGED <<given, appvars, keyvars>>

\* Lines 120-126, called from the GUI thread while run() executes.
Stop ==
    /\ pc # "done"
    /\ ~is_stopped
    /\ is_stopped' = TRUE
    /\ stopped_in_size' = (pc \in SizePhase)
    /\ UNCHANGED <<tiles, rsize, fexists, fbytes, pc, i, grand_total_size,
                   cumulative_bytes_downloaded, pos, chunk, last_status,
                   tile_status, file_progress, last_progress, error_emits,
                   critical_emits, finished_emits, raised_at, probe_failed,
                   net, after_stop>>
    /\ UNCHANGED <<given, appvars, keyvars>>

Next ==
    \/ CreateClient
    \/ SizePoll
    \/ SizeHead
    \/ SizeDone
    \/ TilePoll
    \/ TileExists
    \/ GetObject
    \/ OpenFile
    \/ ReadChunk
    \/ EndOfStream
    \/ ChunkPoll
    \/ WriteChunk
    \/ TileEnd
    \/ Critical
    \/ Finally
    \/ Stop

Spec == Init /\ [][Next]_vars

\* The steps of run(): every call it makes returns, so the thread keeps
\* taking steps until run() has returned. stop() may or may not be called.
RunNext ==
    \/ CreateClient
    \/ SizePoll
    \/ SizeHead
    \/ SizeDone
    \/ TilePoll
    \/ TileExists
    \/ GetObject
    \/ OpenFile
    \/ ReadChunk
    \/ EndOfStream
    \/ ChunkPoll
    \/ WriteChunk
    \/ TileEnd
    \/ Critical
    \/ Finally

\* run() never reads the answer of the dialog: one answer stands for both.
FairInit == Init /\ overwrite_mode = "overwrite"

FairSpec == FairInit /\ [][Next]_vars /\ WF_vars(RunNext)

\* ------------------------------------------------------------- type check
TypeOK ==
    /\ pc \in {"start", "size_poll", "size_head", "size_done", "tile_poll",
               "tile_exists", "get", "open", "read", "chunk_poll", "write",
               "tile_end", "critical", "finally", "done"}
    /\ is_stopped \in BOOLEAN
    /\ i \in 1..(N + 1)
    /\ \A t \in DOMAIN tiles : fbytes[t] \in 0..rsize[t]

\* ------------------------------------------------------------------ claims
\* Every tile's local file is either absent or holds all bytes of the remote
\* object.
AllFilesWhole == \A t \in DOMAIN tiles : ~fexists[t] \/ fbytes[t] = rsize[t]

\* Remote operations issued after stop() set the flag.
RemoteOpsAfterStop == after_stop.head + after_stop.get + after_stop.read

\* C1: for every job, finished is emitted exactly once on every path: never
\* more than once, and once run() has returned it has been emitted.
C1_FinishedExactlyOnce ==
    /\ finished_emits <= 1
    /\ pc = "done" => finished_emits = 1

\* C2: after run() has returned, on any path, every tile's local file is
\* absent or complete; no truncated file remains.
C2_NoTruncatedFileAfterRun == pc = "done" => AllFilesWhole

\* C3: for a job in which stop() was called while run() was executing, when
\* the job has ended every tile's local file is absent or complete.
C3_NoPartialFileAfterStop == (is_stopped /\ pc = "done") => AllFilesWhole

\* C4: a remote error at the GET call or while streaming never aborts the
\* job: it does not reach the outer handler, and a job that was neither
\* stopped nor hit by a local failure has announced every one of its tiles.
C4_RemoteErrorIsolated ==
    /\ raised_at \notin {"get", "stream"}
    /\ (pc = "done" /\ ~is_stopped /\ raised_at \notin {"client", "head", "open", "write"} /\ N > 0)
          => file_progress = <<N, N>>

\* C5: the cumulative value of successive byte-progress events never
\* decreases within a job.
C5_ProgressMonotonic == [][last_progress'[1] >= last_progress[1]]_vars

\* A second tile was cancelled in the middle of its file after the first
\* one was downloaded completely.
C5_Witness ==
    /\ N = 2
    /\ tile_status[1] = "Finished"
    /\ tile_status[2] = "Cancelled"
    /\ last_progress[1] > rsize[1]

\* C6: with no failed probe every byte-progress event has cumulative <=
\* estimated_total; the bound is exceeded only when the probe of some tile
\* failed and that tile is downloaded nevertheless.
C6_ProgressWithinEstimate ==
    /\ probe_failed = {} => last_progress[1] <= last_progress[2]
    /\ last_progress[1] > last_progress[2] =>
          \E t \in probe_failed : tile_status[t] \notin {"none", "Skipped (already exists)"}

\* Two tiles were probed and downloaded, the last event carries the whole
\* estimate.
C6_Witness ==
    /\ N = 2
    /\ probe_failed = {}
    /\ net.head = 2
    /\ last_progress[1] = rsize[1] + rsize[2]
    /\ last_progress[1] = last_progress[2]

\* C7: once the start-of-tile poll has found the flag set (the status
\* "Download cancelled by user." was emitted), no HEAD, GET or chunk read is
\* issued and no file is created or written.
C7_NoWorkAfterTilePollCancel ==
    [][last_status = "Download cancelled by user." => UNCHANGED <<net, fexists, fbytes>>]_vars

\* The poll of the first of two tiles found the flag set and the job ended
\* with neither tile fetched.
C7_Witness ==
    /\ pc = "done"
    /\ last_status = "Download cancelled by user."
    /\ N = 2
    /\ i = 1
    /\ ~fexists[1]
    /\ ~fexists[2]
    /\ net.get = 0

\* C8 as stated: the flag is polled before the next chunk is requested, so
\* with the flag set after a chunk was written no further chunk is read.
C8_NoReadOnceStopped ==
    [][(is_stopped /\ pc = "read" /\ pos > 0) => net'.read = net.read]_vars

\* C8 as amended: the poll follows the read of a chunk and precedes its write.
\* After stop() at most one further chunk is read and at most one further
\* chunk is written, and a tile reported Cancelled has no local file.
C8_PollBetweenReadAndWrite ==
    /\ after_stop.read <= 1
    /\ after_stop.write <= 1
    /\ \A t \in DOMAIN tiles : tile_status[t] = "Cancelled" => ~fexists[t]

\* stop() came after the first chunk of a tile was written; one more chunk
\* was read, the poll saw the flag and the file was removed.
C8_Witness ==
    /\ N = 1
    /\ tile_status[1] = "Cancelled"
    /\ last_progress[1] = ChunkSize
    /\ after_stop.read = 1
    /\ after_stop.write = 0
    /\ ~fexists[1]

\* C9 as stated: after stop() the worker performs at most one further
\* blocking network operation.
C9_OneOperationAfterStop == RemoteOpsAfterStop <= 1

\* C9 as amended: after stop() the worker performs at most one further chunk
\* read and at most two further network operations, and it has emitted
\* finished when run() has returned.
C9_BoundedWorkAfterStop ==
    /\ after_stop.read <= 1
    /\ RemoteOpsAfterStop <= 2
    /\ pc = "done" => finished_emits >= 1

\* stop() fell between the start-of-tile poll and the GET: the GET and the
\* first chunk read were still performed.
C9_Witness ==
    /\ pc = "done"
    /\ after_stop.get = 1
    /\ after_stop.read = 1
    /\ finished_emits >= 1

\* C10: when stop() is called during the size calculation, the worker
\* reports "Download cancelled during size calculation.", issues no GET and
\* starts no tile.
C10_CancelledDuringSizeCalculation ==
    (stopped_in_size /\ pc = "done") =>
        /\ last_status = "Download cancelled during size calculation."
        /\ net.get = 0
        /\ \A t \in DOMAIN tiles : tile_status[t] = "none"

\* Sum of the remote sizes of the tiles of S.
RECURSIVE SumSizes(_)
SumSizes(S) ==
    IF S = {} THEN 0
    ELSE LET t == CHOOSE x \in S : TRUE IN rsize[t] + SumSizes(S \ {t})

\* Positions of run() at which the current tile is being fetched.
FetchPhase == {"get", "open", "read", "chunk_poll", "write"}

\* Positions of run() inside the download loop.
TilePhase == {"tile_poll", "tile_exists", "tile_end"} \cup FetchPhase

\* The job ran to the end of the tile list: no stop() and no exception.
RanToEnd == pc = "done" /\ ~is_stopped /\ raised_at = "none"

\* A step taken after the S3 client or the local file raised.
AbortStep ==
    raised_at \in {"client", "open"} =>
       /\ UNCHANGED <<net, fexists, fbytes, tile_status, file_progress>>
       /\ pc' \in {"critical", "finally", "done"}
       /\ critical_emits' = (IF pc' = "critical" THEN 0 ELSE 1)
       /\ finished_emits' = (IF pc' = "done" THEN 1 ELSE 0)

\* C11: once the S3 client could not be built or a tile's file could not be
\* opened, no HEAD, GET, chunk read or file change follows, the critical
\* error is reported once, and finished is emitted once.
C11_CriticalErrorAborts == [][AbortStep]_vars

\* The file of the first of two tiles could not be opened; the job ended
\* with the second tile never started.
C11_Witness ==
    /\ pc = "done"
    /\ raised_at = "open"
    /\ N = 2
    /\ i = 1
    /\ tile_status[2] = "none"
    /\ critical_emits = 1
    /\ finished_emits = 1

\* C12: a tile whose local file existed when the job began is never probed
\* and never fetched, adds nothing to the estimate, keeps its file, is
\* reported Skipped and is followed by the next tile.
C12_ExistingFileSkipped ==
    /\ pc = "size_head" => ~existed[cur]
    /\ pc \in FetchPhase => ~existed[cur]
    /\ grand_total_size <= SumSizes({t \in DOMAIN tiles : ~existed[t]})
    /\ \A t \in DOMAIN tiles :
          existed[t] =>
             /\ fexists[t]
             /\ fbytes[t] = rsize[t]
             /\ tile_status[t] \in {"none", "Skipped (already exists)"}
             /\ RanToEnd => tile_status[t] = "Skipped (already exists)"
    /\ (pc = "tile_poll" /\ i > 1 /\ i - 1 <= N /\ existed[tiles[i - 1]])
          => tile_status[tiles[i - 1]] = "Skipped (already exists)"

\* The first tile existed and was skipped, the second one was downloaded.
C12_Witness ==
    /\ N = 2
    /\ overwrite_mode = "skip"
    /\ existed[1]
    /\ ~existed[2]
    /\ tile_status[1] = "Skipped (already exists)"
    /\ tile_status[2] = "Finished"
    /\ net.head = 1
    /\ net.get = 1
    /\ grand_total_size = rsize[2]

\* C13: with the answer "Overwrite All" a tile whose file exists is probed
\* and downloaded again; an existing file is left untouched only with the
\* answer "Skip Existing".
C13_OverwriteReplaces ==
    (RanToEnd /\ overwrite_mode = "overwrite") =>
        \A t \in DOMAIN tiles :
           (existed[t] /\ error_emits[t] = 0) => tile_status[t] = "Finished"

\* C14: a job whose tiles all have their local file performs no GET,
\* transfers no byte, changes no file and reports every tile processed.
C14_RerunIsIdempotent ==
    (overwrite_mode = "skip" /\ \A t \in DOMAIN tiles : existed[t]) =>
        /\ net = NoOps
        /\ cumulative_bytes_downloaded = 0
        /\ last_progress = <<0, 0>>
        /\ fexists = existed
        /\ \A t \in DOMAIN tiles : fbytes[t] = rsize[t]
        /\ RanToEnd =>
              /\ file_progress = <<N, N>>
              /\ \A t \in DOMAIN tiles : tile_status[t] = "Skipped (already exists)"
              /\ finished_emits = 1

\* Both tiles of a job existed and the job ran to its end.
C14_Witness ==
    /\ N = 2
    /\ overwrite_mode = "skip"
    /\ existed[1]
    /\ existed[2]
    /\ RanToEnd
    /\ file_progress = <<2, 2>>

\* C15: a failing head_object never aborts the job and is not reported, the
\* tile stays in the download set, and the estimate is the sum of the sizes
\* of the tiles that were probed successfully.
C15_ProbeFailureSwallowed ==
    /\ raised_at # "head"
    /\ (pc \in TilePhase /\ ~stopped_in_size) =>
          grand_total_size = SumSizes({t \in DOMAIN tiles : ~existed[t] /\ t \notin probe_failed})
    /\ RanToEnd => \A t \in probe_failed : tile_status[t] # "none"

\* What a step may do to the final report of a tile.
FinishedStep ==
    \A t \in DOMAIN tiles :
          /\ tile_status'[t] = "Finished" =>
                /\ fexists'[t]
                /\ fbytes'[t] = rsize[t]
                /\ error_emits'[t] = 0
                /\ tile_status[t] \in {"Downloading", "Finished"}
          /\ (tile_status'[t] = "Finished" /\ tile_status[t] = "Downloading") =>
                (pc = "read" /\ cur = t /\ pos = rsize[t] /\ fbytes[t] = rsize[t])
          /\ tile_status[t] \in {"Finished", "Cancelled", "Error"} =>
                tile_status'[t] = tile_status[t]
          /\ (pc = "read" /\ cur = t /\ pos = rsize[t] /\ pc' # "read") =>
                tile_status'[t] = "Finished"

\* C16: a tile is reported Finished exactly when its stream ended with every
\* chunk written; the report is final, is never combined with Cancelled or
\* an error, and the tile's file is complete.
C16_FinishedMeansComplete == [][FinishedStep]_vars

\* Of two tiles the first was reported Finished and the second Cancelled.
C16_Witness ==
    /\ N = 2
    /\ pc = "done"
    /\ tile_status[1] = "Finished"
    /\ tile_status[2] = "Cancelled"
    /\ fbytes[1] = rsize[1]
    /\ ~fexists[2]

\* ---------------------------------------------------------------- scenario
\* Two tiles, nothing in the target directory, remote objects of 1000 and
\* 2000 bytes.
ScenarioSizes == <<1000, 2000>>

ScenarioInit ==
    /\ tiles = [k \in 1..Len(ScenarioSizes) |-> k]
    /\ rsize = ScenarioSizes
    /\ fexists = [k \in 1..Len(ScenarioSizes) |-> FALSE]
    /\ fbytes = [k \in 1..Len(ScenarioSizes) |-> 0]
    /\ tile_status = [k \in 1..Len(ScenarioSizes) |-> "none"]
    /\ error_emits = [k \in 1..Len(ScenarioSizes) |-> 0]
    /\ pc = "start"
    /\ i = 1
    /\ is_stopped = FALSE
    /\ grand_total_size = 0
    /\ cumulative_bytes_downloaded = 0
    /\ pos = 0
    /\ chunk = 0
    /\ last_status = "none"
    /\ file_progress = <<0, 0>>
    /\ last_progress = <<0, 0>>
    /\ critical_emits = 0
    /\ finished_emits = 0
    /\ raised_at = "none"
    /\ probe_failed = {}
    /\ net = NoOps
    /\ after_stop = NoOps
    /\ stopped_in_size = FALSE
    /\ existed = fexists
    /\ overwrite_mode \in HandleExistingFiles(fexists)
    /\ AppIdle
    /\ KeyIdle

ScenarioSpec == ScenarioInit /\ [][Next]_vars

\* The run met no stop() and no failure so far.
ScenarioClean ==
    /\ ~is_stopped
    /\ raised_at = "none"
    /\ probe_failed = {}
    /\ \A t \in DOMAIN tiles : error_emits[t] = 0

\* The progress values of the scenario, in order: <<file counter, bytes>>.
ScenarioTotal == ScenarioSizes[1] + ScenarioSizes[2]
ScenarioProgress ==
    << <<(<<0, 0>>), (<<0, 0>>)>>,
       <<(<<1, 2>>), (<<0, 0>>)>>,
       <<(<<1, 2>>), (<<ScenarioSizes[1], ScenarioTotal>>)>>,
       <<(<<2, 2>>), (<<ScenarioSizes[1], ScenarioTotal>>)>>,
       <<(<<2, 2>>), (<<ScenarioTotal, ScenarioTotal>>)>> >>

\* Index in ScenarioProgress of the values last emitted, 0 when they are not
\* in it.
ProgressIndex(fp, lp) ==
    IF \E k \in DOMAIN ScenarioProgress : ScenarioProgress[k] = <<fp, lp>>
    THEN CHOOSE k \in DOMAIN ScenarioProgress : ScenarioProgress[k] = <<fp, lp>>
    ELSE 0

ScenarioStep ==
    ScenarioClean' =>
       /\ ProgressIndex(file_progress, last_progress) > 0
       /\ ProgressIndex(file_progress', last_progress')
             \in {ProgressIndex(file_progress, last_progress),
                  ProgressIndex(file_progress, last_progress) + 1}
       /\ finished_emits' = (IF pc' = "done" THEN 1 ELSE 0)
       /\ pc' = "done" =>
             /\ ProgressIndex(file_progress', last_progress') = Len(ScenarioProgress)
             /\ \A t \in DOMAIN tiles : tile_status'[t] = "Finished"

\* C17: in the scenario the progress values are emitted in the order file
\* 1/2, bytes 1000/3000, file 2/2, bytes 3000/3000, no other value occurs,
\* and the run ends with finished emitted once.
C17_ScenarioProgressSequence == [][ScenarioStep]_vars

\* The scenario ran to its end with the last progress values emitted.
C17_Witness ==
    /\ rsize = ScenarioSizes
    /\ ScenarioClean
    /\ pc = "done"
    /\ file_progress = <<2, 2>>
    /\ last_progress = <<ScenarioTotal, ScenarioTotal>>
    /\ finished_emits = 1

\* -------------------------------------------------------------- controller
\* The job state of a controller that has no job under way.
NoJob ==
    /\ tiles = <<>>
    /\ rsize = <<>>
    /\ fexists = <<>>
    /\ fbytes = <<>>
    /\ tile_status = <<>>
    /\ error_emits = <<>>
    /\ pc = "start"
    /\ i = 1
    /\ is_stopped = FALSE
    /\ grand_total_size = 0
    /\ cumulative_bytes_downloaded = 0
    /\ pos = 0
    /\ chunk = 0
    /\ last_status = "none"
    /\ file_progress = <<0, 0>>
    /\ last_progress = <<0, 0>>
    /\ critical_emits = 0
    /\ finished_emits = 0
    /\ raised_at = "none"
    /\ probe_failed = {}
    /\ net = NoOps
    /\ after_stop = NoOps
    /\ stopped_in_size = FALSE
    /\ existed = <<>>
    /\ overwrite_mode = "overwrite"

AppInit == NoJob /\ AppIdle /\ KeyIdle

\* QThread.isRunning(): true from start() until run() has returned and the
\* thread has ended.
isRunning(w) == t_pc[w] \in {"size", "tiles", "chunk", "finally", "returned"}

\* The worker is at work on its job: probing sizes or downloading tiles.
ExecutesJob(w) == t_pc[w] \in {"size", "tiles", "chunk"}

\* The event loop on top of the controller's thread ("main" when no dialog
\* is open).
TopLoop == IF ui = <<>> THEN "main" ELSE ui[Len(ui)]

\* finished.emit() of worker w: posted to the controller's thread while the
\* connection of line 222 stands.
Post(q, w) == IF t_connected[w] THEN Append(q, w) ELSE q

\* Outcomes of DownloadWorker(tiles, save_path, overwrite_mode) at line 213:
\* the constructor of download_worker.py takes two arguments and raises
\* TypeError; the worker the controller is written for accepts the policy.
ConstructOutcomes == {"TypeError", "constructed"}

\* Answers of the directory dialog and of the existing-files dialog.
DialogAnswers == {"cancel", "overwrite", "skip"}

\* A dialog that returns with posted events still waiting.
PostedEventsKept(q) == TRUE

\* Lines 200 and 246: QFileDialog.getExistingDirectory and msg_box.exec()
\* run an event loop, which dispatches the events posted before the dialog
\* opened before it hands the user's answer back.
PostedEventsDispatched(q) == q = <<>>

\* The guard of line 195 left out.
StartGuardOpen == FALSE

\* Line 195: a request is turned down while the current worker runs.
StartGuard == worker # 0 /\ isRunning(worker)

\* start_download, lines 190-200: the guard, then the directory dialog opens.
\* The slot is taken as callable whenever the main event loop runs; the view
\* itself emits download_requested only while its button does not read Stop.
StartRequest ==
    /\ TopLoop = "main"
    /\ ~quit_called
    /\ IF StartGuard
       THEN rejected' = TRUE /\ ui' = ui
       ELSE ui' = Append(ui, "dialogs") /\ rejected' = rejected
    /\ UNCHANGED <<worker, t_pc, t_stopped, t_connected, t_outcome, events,
                   is_downloading, msg, quit_called, work_after_quit>>
    /\ UNCHANGED <<jobvars, keyvars, selvars>>

\* get_selected_tiles, lines 42-50 of selection_model.py: a copy of the set,
\* of which line 213 makes a list for the worker.
get_selected_tiles(sel) == sel

\* The set of the model itself handed to the worker, not a copy of it.
self_tilesShared(own, model) == model

\* Line 32 of download_worker.py: self.tiles is the list the constructor
\* was given, an object of its own made at line 213 of app_controller.py out
\* of the copy get_selected_tiles returns; what the model's set becomes
\* later does not reach it.
self_tiles(own, model) == own

\* The tiles worker w iterates at lines 44 and 68 of download_worker.py.
WorkerTiles(w) == self_tiles(t_tiles[w], selected_tiles)

\* Line 65 of download_worker.py: the total of the file-progress events.
total_tiles(w) == Cardinality(WorkerTiles(w))

\* start_download, lines 200-224: the dialogs are answered; the event loop
\* of a dialog has dispatched the events posted before the user can answer.
StartConfirmed ==
    /\ TopLoop = "dialogs"
    /\ PostedEventsDispatched(events)
    /\ ui' = SubSeq(ui, 1, Len(ui) - 1)
    /\ \E answer \in DialogAnswers, built \in ConstructOutcomes :
         IF answer = "cancel"
         THEN UNCHANGED <<worker, t_pc, t_connected, is_downloading, t_tiles>>
         ELSE /\ is_downloading' = TRUE
              /\ IF built = "TypeError"
                 THEN UNCHANGED <<worker, t_pc, t_connected, t_tiles>>
                 ELSE \E w \in Workers :
                        /\ t_pc[w] = "none"
                        /\ \A v \in Workers : v < w => t_pc[v] # "none"
                        /\ worker' = w
                        /\ t_tiles' = [t_tiles EXCEPT
                                          ![w] = get_selected_tiles(selected_tiles)]
                        /\ t_connected' = [t_connected EXCEPT ![w] = TRUE]
                        /\ t_pc' = [t_pc EXCEPT ![w] = "size"]
    /\ UNCHANGED <<t_stopped, t_outcome, events, msg, rejected, quit_called,
                   work_after_quit>>
    /\ UNCHANGED <<jobvars, keyvars, selected_tiles, download_button_enabled,
                   mapvars>>

\* stop_download, lines 260-265.
StopRequest ==
    /\ TopLoop = "main"
    /\ ~quit_called
    /\ worker # 0
    /\ ~t_stopped[worker]
    /\ t_stopped' = [t_stopped EXCEPT ![worker] = TRUE]
    /\ UNCHANGED <<worker, t_pc, t_connected, t_outcome, events, ui,
                   is_downloading, msg, rejected, quit_called, work_after_quit>>
    /\ UNCHANGED <<jobvars, keyvars, selvars>>

\* The terminal message of on_download_finished, lines 289-294.
TerminalMessageIgnoresFlag(was_cancelled) == "All downloads completed!"
TerminalMessage(was_cancelled) ==
    IF was_cancelled THEN "Download cancelled." ELSE "All downloads completed!"

\* on_download_finished, lines 268-294, run for the finished emission at the
\* head of the posted events by whichever event loop is open. The emission
\* does not say which worker sent it: the handler reads self.worker.
OnDownloadFinished ==
    /\ events # <<>>
    /\ TopLoop \in {"main", "dialogs", "info"}
    /\ ~quit_called
    /\ events' = Tail(events)
    /\ IF worker = 0
       THEN UNCHANGED <<worker, t_connected, is_downloading, msg, ui,
                        download_button_enabled>>
       ELSE /\ t_connected' = [t_connected EXCEPT ![worker] = FALSE]
            /\ is_downloading' = FALSE
            /\ download_button_enabled' = (selected_tiles # {})
            /\ worker' = 0
            /\ msg' = [msg EXCEPT ![worker] = TerminalMessage(t_stopped[worker])]
            /\ ui' = IF t_stopped[worker] THEN ui ELSE Append(ui, "info")
    /\ UNCHANGED <<t_pc, t_stopped, t_outcome, rejected, quit_called,
                   work_after_quit>>
    /\ UNCHANGED <<jobvars, keyvars, selected_tiles, mapvars, t_tiles>>

\* Line 292: the user closes the "Download Complete" box.
CloseInformation ==
    /\ TopLoop = "info"
    /\ ui' = SubSeq(ui, 1, Len(ui) - 1)
    /\ UNCHANGED <<worker, t_pc, t_stopped, t_connected, t_outcome, events,
                   is_downloading, msg, rejected, quit_called, work_after_quit>>
    /\ UNCHANGED <<jobvars, keyvars, selvars>>

\* cleanup without the wait: the application quits at once.
CleanupWithoutWait ==
    /\ TopLoop = "main"
    /\ ~quit_called
    /\ quit_called' = TRUE
    /\ t_stopped' = IF worker # 0 /\ isRunning(worker)
                    THEN [t_stopped EXCEPT ![worker] = TRUE]
                    ELSE t_stopped
    /\ UNCHANGED <<worker, t_pc, t_connected, t_outcome, events, ui,
                   is_downloading, msg, rejected, work_after_quit>>
    /\ UNCHANGED <<jobvars, keyvars, selvars>>

\* closeEvent emits window_closed; cleanup, lines 297-309: a running current
\* worker is stopped and waited for, otherwise the application quits.
Cleanup ==
    /\ TopLoop = "main"
    /\ ~quit_called
    /\ IF worker # 0 /\ isRunning(worker)
       THEN /\ t_stopped' = [t_stopped EXCEPT ![worker] = TRUE]
            /\ ui' = Append(ui, "wait")
            /\ quit_called' = quit_called
       ELSE /\ quit_called' = TRUE
            /\ UNCHANGED <<t_stopped, ui>>
    /\ UNCHANGED <<worker, t_pc, t_connected, t_outcome, events,
                   is_downloading, msg, rejected, work_after_quit>>
    /\ UNCHANGED <<jobvars, keyvars, selvars>>

\* Lines 304-309: worker.wait() returns once the thread has ended; the HTTP
\* server is stopped and the application quits.
CleanupResume ==
    /\ TopLoop = "wait"
    /\ ~isRunning(worker)
    /\ ui' = SubSeq(ui, 1, Len(ui) - 1)
    /\ quit_called' = TRUE
    /\ UNCHANGED <<worker, t_pc, t_stopped, t_connected, t_outcome, events,
                   is_downloading, msg, rejected, work_after_quit>>
    /\ UNCHANGED <<jobvars, keyvars, selvars>>

\* ---------------------------------------------------------- worker threads
\* run(), lines 44-62: the size calculation ends; with the flag set finished
\* is emitted at line 61 and the thread goes on to the finally clause.
JobSizeDone(w) ==
    /\ t_pc[w] = "size"
    /\ IF t_stopped[w]
       THEN /\ events' = Post(events, w)
            /\ t_outcome' = [t_outcome EXCEPT ![w] = "cancelled"]
            /\ t_pc' = [t_pc EXCEPT ![w] = "finally"]
       ELSE /\ t_pc' = [t_pc EXCEPT ![w] = "tiles"]
            /\ UNCHANGED <<events, t_outcome>>
    /\ UNCHANGED <<worker, t_stopped, t_connected, ui, is_downloading, msg,
                   rejected, quit_called, work_after_quit>>
    /\ UNCHANGED <<jobvars, keyvars, selvars>>

\* run(), lines 114-115: an exception reaches the outer handler.
JobCritical(w) ==
    /\ t_pc[w] \in {"size", "tiles", "chunk"}
    /\ t_outcome' = [t_outcome EXCEPT ![w] = "critical"]
    /\ t_pc' = [t_pc EXCEPT ![w] = "finally"]
    /\ UNCHANGED <<worker, t_stopped, t_connected, events, ui, is_downloading,
                   msg, rejected, quit_called, work_after_quit>>
    /\ UNCHANGED <<jobvars, keyvars, selvars>>

\* run(), lines 85-90: a tile's file is opened and a chunk is read.
JobRead(w) ==
    /\ t_pc[w] = "tiles"
    /\ t_pc' = [t_pc EXCEPT ![w] = "chunk"]
    /\ UNCHANGED <<worker, t_stopped, t_connected, t_outcome, events, ui,
                   is_downloading, msg, rejected, quit_called, work_after_quit>>
    /\ UNCHANGED <<jobvars, keyvars, selvars>>

\* run(), lines 92-103: with the flag set the file is removed and the loops
\* are left, otherwise the chunk is written.
JobWrite(w) ==
    /\ t_pc[w] = "chunk"
    /\ work_after_quit' = (work_after_quit \/ quit_called)
    /\ IF t_stopped[w]
       THEN /\ t_outcome' = [t_outcome EXCEPT ![w] = "cancelled"]
            /\ t_pc' = [t_pc EXCEPT ![w] = "finally"]
       ELSE /\ t_pc' = [t_pc EXCEPT ![w] = "tiles"]
            /\ UNCHANGED t_outcome
    /\ UNCHANGED <<worker, t_stopped, t_connected, events, ui, is_downloading,
                   msg, rejected, quit_called>>
    /\ UNCHANGED <<jobvars, keyvars, selvars>>

\* run(), lines 68-71 and 111-112: the loop over the tiles ends, by the flag
\* or because the tiles are exhausted.
JobLoopEnd(w) ==
    /\ t_pc[w] = "tiles"
    /\ t_outcome' = [t_outcome EXCEPT
                       ![w] = IF t_stopped[w] THEN "cancelled" ELSE "completed"]
    /\ t_pc' = [t_pc EXCEPT ![w] = "finally"]
    /\ UNCHANGED <<worker, t_stopped, t_connected, events, ui, is_downloading,
                   msg, rejected, quit_called, work_after_quit>>
    /\ UNCHANGED <<jobvars, keyvars, selvars>>

\* run(), lines 116-117: finally emits finished and run() returns.
JobFinally(w) ==
    /\ t_pc[w] = "finally"
    /\ events' = Post(events, w)
    /\ t_pc' = [t_pc EXCEPT ![w] = "returned"]
    /\ UNCHANGED <<worker, t_stopped, t_connected, t_outcome, ui,
                   is_downloading, msg, rejected, quit_called, work_after_quit>>
    /\ UNCHANGED <<jobvars, keyvars, selvars>>

\* The thread ends: isRunning() turns false and wait() returns. Nothing
\* reads the list of an ended worker any more; the model forgets it.
JobExit(w) ==
    /\ t_pc[w] = "returned"
    /\ t_pc' = [t_pc EXCEPT ![w] = "ended"]
    /\ t_tiles' = [t_tiles EXCEPT ![w] = {}]
    /\ UNCHANGED <<worker, t_stopped, t_connected, t_outcome, events, ui,
                   is_downloading, msg, rejected, quit_called, work_after_quit>>
    /\ UNCHANGED <<jobvars, keyvars, selected_tiles, download_button_enabled,
                   mapvars>>

\* The tiles of the map.
MapTiles == 1..MaxMapTiles

\* on_selection_changed, lines 175-186: the button follows has_selection().
SelectionChanged(sel, enabled) == sel # {}

\* The functions of the map's page the controller calls. The page is not
\* among the sources; the functions are taken to do what their names say.
addHighlight(h, t) == h \cup {t}
removeHighlight(h, t) == h \ {t}
clearAllHighlights(h) == {}

\* The membership test of line 168 left out: a click always highlights.
HighlightAlwaysAdded(t, sel, h) == addHighlight(h, t)

\* Lines 168-171: the command sent to the map, decided by the selection as
\* it is before the toggle.
HighlightCommand(t, sel, h) ==
    IF t \in sel THEN removeHighlight(h, t) ELSE addHighlight(h, t)

\* toggle_selection, lines 19-40 of selection_model.py.
toggle_selection(sel, t) == IF t \in sel THEN sel \ {t} ELSE sel \cup {t}

\* A click on the map: on_tile_selected, lines 158-173, toggle_selection
\* and the selection_changed signal it emits. Clicks come from the loaded
\* page, whose functions are there to be called.
TileClicked(t) ==
    /\ TopLoop = "main"
    /\ ~quit_called
    /\ highlighted' = HighlightCommand(t, get_selected_tiles(selected_tiles),
                                       highlighted)
    /\ selected_tiles' = toggle_selection(selected_tiles, t)
    /\ selection_changed' = <<selected_tiles'>>
    /\ download_button_enabled' =
          SelectionChanged(selected_tiles', download_button_enabled)
    /\ UNCHANGED <<worker, t_pc, t_stopped, t_connected, t_outcome, events, ui,
                   is_downloading, msg, rejected, quit_called, work_after_quit,
                   t_tiles>>
    /\ UNCHANGED <<jobvars, keyvars>>

\* on_clear_selection, lines 134-150, clear_selection and the signal it
\* emits. A selection that is not empty was made by clicks on the loaded
\* map, so is_map_ready() holds and the highlights are cleared.
ClearSelection ==
    /\ TopLoop = "main"
    /\ ~quit_called
    /\ selected_tiles # {}
    /\ selected_tiles' = {}
    /\ selection_changed' = <<selected_tiles'>>
    /\ highlighted' = clearAllHighlights(highlighted)
    /\ download_button_enabled' =
          SelectionChanged(selected_tiles', download_button_enabled)
    /\ UNCHANGED <<worker, t_pc, t_stopped, t_connected, t_outcome, events, ui,
                   is_downloading, msg, rejected, quit_called, work_after_quit,
                   t_tiles>>
    /\ UNCHANGED <<jobvars, keyvars>>

AppNext ==
    \/ \E t \in MapTiles : TileClicked(t)
    \/ ClearSelection
    \/ StartRequest
    \/ StartConfirmed
    \/ StopRequest
    \/ OnDownloadFinished
    \/ CloseInformation
    \/ Cleanup
    \/ CleanupResume
    \/ \E w \in Workers : JobSizeDone(w)
    \/ \E w \in Workers : JobCritical(w)
    \/ \E w \in Workers : JobRead(w)
    \/ \E w \in Workers : JobWrite(w)
    \/ \E w \in Workers : JobLoopEnd(w)
    \/ \E w \in Workers : JobFinally(w)
    \/ \E w \in Workers : JobExit(w)

AppSpec == AppInit /\ [][AppNext]_vars

AppTypeOK ==
    /\ worker \in 0..MaxJobs
    /\ t_pc \in [Workers -> {"none", "size", "tiles", "chunk", "finally",
                             "returned", "ended"}]
    /\ t_stopped \in [Workers -> BOOLEAN]
    /\ t_connected \in [Workers -> BOOLEAN]
    /\ t_outcome \in [Workers -> {"none", "completed", "cancelled", "critical"}]
    /\ \A k \in DOMAIN events : events[k] \in Workers
    /\ \A k \in DOMAIN ui : ui[k] \in {"dialogs", "info", "wait"}
    /\ is_downloading \in BOOLEAN
    /\ msg \in [Workers -> {"none", "Download cancelled.",
                            "All downloads completed!"}]
    /\ rejected \in BOOLEAN
    /\ quit_called \in BOOLEAN
    /\ work_after_quit \in BOOLEAN
    /\ selected_tiles \subseteq MapTiles
    /\ download_button_enabled \in BOOLEAN
    /\ highlighted \subseteq MapTiles
    /\ Len(selection_changed) <= 1
    /\ t_tiles \in [Workers -> SUBSET MapTiles]

\* ------------------------------------------------------- controller claims
\* A step of the application seen from the rule of one job at a time.
OneJobStep ==
    /\ Cardinality({w \in Workers : ExecutesJob(w)}) <= 1
    /\ Cardinality({w \in Workers : ExecutesJob(w)})' <= 1
    /\ (worker # 0 /\ ExecutesJob(worker)) =>
          /\ \A w \in Workers : t_pc[w] = "none" => t_pc'[w] = "none"
          /\ TopLoop' # "dialogs"
          /\ rejected' # rejected =>
                UNCHANGED <<worker, t_pc, t_stopped, t_connected, t_outcome,
                            events, ui, is_downloading, msg, quit_called,
                            work_after_quit>>

C21_StopFlagMonotonic == [][is_stopped => is_stopped']_vars

\* The worker went on for some operations after stop() and ended with the
\* flag still set.
C21_Witness ==
    /\ is_stopped
    /\ pc = "done"
    /\ after_stop # NoOps

\* The last per-tile texts after which the loop goes on to the next tile.
GoesOn == {"Finished", "Skipped (already exists)", "Error"}

\* What a step may emit, given the file counter emitted last.
EventStep ==
    /\ file_progress' # file_progress =>
          /\ file_progress' = <<file_progress[1] + 1, N>>
          /\ file_progress'[1] = i
          /\ file_progress[1] >= 1 => tile_status[tiles[file_progress[1]]] \in GoesOn
          /\ tile_status'[tiles[i]] = "none"
          /\ UNCHANGED <<tile_status, error_emits, last_progress, net>>
    /\ \A t \in DOMAIN tiles :
          (tile_status'[t] # tile_status[t] \/ error_emits'[t] # error_emits[t])
             => (file_progress[1] = t /\ file_progress' = file_progress)
    /\ (net'.get # net.get \/ net'.read # net.read \/ last_progress' # last_progress)
          => (file_progress[1] = i /\ tile_status[cur] = "Downloading")

\* C24: the file counter of a tile is emitted before every other event of
\* that tile, the counters run 1, 2, ... with the number of tiles as total,
\* and the events of a tile all precede the counter of the next tile.
C24_TileEventsInOrder == [][EventStep]_vars

\* Both tiles of a job were reached: the first was downloaded, the second
\* ended with an error.
C24_Witness ==
    /\ N = 2
    /\ pc = "done"
    /\ file_progress = <<2, 2>>
    /\ tile_status[1] = "Finished"
    /\ tile_status[2] = "Error"
    /\ error_emits[2] = 1

\* The last per-tile text of a tile whose handling has ended, "none" for a
\* tile the loop never reached.
Outcomes == {"Finished", "Skipped (already exists)", "Cancelled", "Error", "none"}

\* C25: when the job has ended every tile has one outcome: completed,
\* skipped, cancelled, failed, or never attempted.
C25_EveryTileHasOneOutcome ==
    pc = "done" => \A t \in DOMAIN tiles : tile_status[t] \in Outcomes

\* Line 115: the text is "A critical error occurred: " followed by str(e).
\* The OSError raised by open() prints the path of the file; the exceptions
\* of botocore and of write() do not.
CriticalNamesFile(where) == where = "open"

\* C26: a critical error reported for a failure inside the download loop
\* names the file of the tile that was being handled.
C26_CriticalErrorNamesTile ==
    (critical_emits > 0 /\ raised_at \in {"get", "open", "stream", "write"})
       => CriticalNamesFile(raised_at)

\* Chunks a remote object of the given size is streamed in.
ChunkCount(size) == (size + ChunkSize - 1) \div ChunkSize

RECURSIVE SumChunks(_)
SumChunks(S) ==
    IF S = {} THEN 0
    ELSE LET t == CHOOSE x \in S : TRUE IN ChunkCount(rsize[t]) + SumChunks(S \ {t})

\* The loops of run() stay within the tiles of the job and the chunks of
\* their remote objects.
IterationsBounded ==
    /\ i <= N + 1
    /\ file_progress[1] <= N
    /\ net.head <= N
    /\ net.get <= N
    /\ net.read <= SumChunks(DOMAIN tiles)
    /\ net.write <= net.read

\* C27: every job ends, with finished emitted, whether or not stop() is
\* called, and its loops run at most once per tile and once per chunk.
C27_JobTerminates ==
    /\ <>(pc = "done" /\ finished_emits >= 1)
    /\ []IterationsBounded

\* A job of two tiles ended after reading every chunk of both.
C27_Witness ==
    /\ N = 2
    /\ pc = "done"
    /\ finished_emits = 1
    /\ net.read = SumChunks(DOMAIN tiles)
    /\ net.read >= 2 * MaxChunks

\* ------------------------------------------------------ format_tile_s3_key
\* Text is a sequence of pieces: single characters where the formatting
\* decides them, longer strings for the fixed parts of the name.
DigitChars == <<"0", "1", "2", "3", "4", "5", "6", "7", "8", "9">>

Abs(n) == IF n < 0 THEN -n ELSE n

\* The decimal digits of n >= 0, most significant first, as "d" prints them.
RECURSIVE Digits(_)
Digits(n) ==
    IF n < 10 THEN <<DigitChars[n + 1]>>
    ELSE Append(Digits(n \div 10), DigitChars[(n % 10) + 1])

\* The format specifications 02d and 03d left out: no padding.
ZeroPadNone(ds, width) == ds

\* The zero flag with a minimum width: zeros in front up to the width, a
\* longer number printed in full.
RECURSIVE ZeroPad(_, _)
ZeroPad(ds, width) ==
    IF Len(ds) >= width THEN ds ELSE ZeroPad(<<"0">> \o ds, width)

\* The hemisphere test left out: every latitude printed as north.
lat_strNorth(la) == <<"N">> \o ZeroPad(Digits(Abs(la)), 2)

\* Line 9.
lat_str(la) ==
    IF la >= 0 THEN <<"N">> \o ZeroPad(Digits(Abs(la)), 2)
    ELSE <<"S">> \o ZeroPad(Digits(Abs(la)), 2)

\* Line 10.
lon_str(lo) ==
    IF lo >= 0 THEN <<"E">> \o ZeroPad(Digits(Abs(lo)), 3)
    ELSE <<"W">> \o ZeroPad(Digits(Abs(lo)), 3)

\* Line 11.
base_name(la, lo) ==
    <<"Copernicus_DSM_COG_10_">> \o lat_str(la) \o <<"_00_">> \o lon_str(lo)
       \o <<"_00_DEM">>

\* Line 12.
format_tile_s3_key(la, lo) ==
    base_name(la, lo) \o <<"/">> \o base_name(la, lo) \o <<".tif">>

\* os.path.basename: what follows the last "/".
RECURSIVE basename(_)
basename(path) ==
    IF \E k \in DOMAIN path : path[k] = "/"
    THEN basename(Tail(path))
    ELSE path

\* Lines 75-76 of run(): the key of a tile is formed and its file named.
FormatKey ==
    /\ s3_key = <<>>
    /\ s3_key' = format_tile_s3_key(lat, lon)
    /\ file_name' = basename(s3_key')
    /\ UNCHANGED <<lat, lon, tile_name>>
    /\ UNCHANGED <<jobvars, appvars>>

\* The longitude printed with the latitude's width, 02d.
format_tile_nameNarrow(la, lo) ==
    LET la_str == IF la >= 0 THEN <<"N">> \o ZeroPad(Digits(Abs(la)), 2)
                  ELSE <<"S">> \o ZeroPad(Digits(Abs(la)), 2)
        lo_str == IF lo >= 0 THEN <<"E">> \o ZeroPad(Digits(Abs(lo)), 2)
                  ELSE <<"W">> \o ZeroPad(Digits(Abs(lo)), 2)
    IN  <<"Copernicus_DSM_COG_10_">> \o la_str \o <<"_00_">> \o lo_str
           \o <<"_00_DEM">>

\* AppController.format_tile_name, lines 320-324 of app_controller.py: the
\* name shown in the list of the view, formatted by the controller's own
\* code.
format_tile_name(la, lo) ==
    LET la_str == IF la >= 0 THEN <<"N">> \o ZeroPad(Digits(Abs(la)), 2)
                  ELSE <<"S">> \o ZeroPad(Digits(Abs(la)), 2)
        lo_str == IF lo >= 0 THEN <<"E">> \o ZeroPad(Digits(Abs(lo)), 3)
                  ELSE <<"W">> \o ZeroPad(Digits(Abs(lo)), 3)
    IN  <<"Copernicus_DSM_COG_10_">> \o la_str \o <<"_00_">> \o lo_str
           \o <<"_00_DEM">>

\* Lines 66-70 of dem_downloader.py: the key formed inline in the loop over
\* the grid of the bounding box.
dem_downloader_s3_key(la, lo) ==
    LET la_str == IF la >= 0 THEN <<"N">> \o ZeroPad(Digits(Abs(la)), 2)
                  ELSE <<"S">> \o ZeroPad(Digits(Abs(la)), 2)
        lo_str == IF lo >= 0 THEN <<"E">> \o ZeroPad(Digits(Abs(lo)), 3)
                  ELSE <<"W">> \o ZeroPad(Digits(Abs(lo)), 3)
        nome_base_tile == <<"Copernicus_DSM_COG_10_">> \o la_str \o <<"_00_">>
                             \o lo_str \o <<"_00_DEM">>
    IN  nome_base_tile \o <<"/">> \o nome_base_tile \o <<".tif">>

\* MainWindow.format_tile_name, lines 309-314 of main.py, the single-file
\* version of the application.
MainWindow_format_tile_name(la, lo) ==
    LET la_str == IF la >= 0 THEN <<"N">> \o ZeroPad(Digits(Abs(la)), 2)
                  ELSE <<"S">> \o ZeroPad(Digits(Abs(la)), 2)
        lo_str == IF lo >= 0 THEN <<"E">> \o ZeroPad(Digits(Abs(lo)), 3)
                  ELSE <<"W">> \o ZeroPad(Digits(Abs(lo)), 3)
    IN  <<"Copernicus_DSM_COG_10_">> \o la_str \o <<"_00_">> \o lo_str
           \o <<"_00_DEM">>

\* Lines 229-232 of app_controller.py: the file _handle_existing_files
\* looks for in the target directory.
existing_file(la, lo) == basename(format_tile_s3_key(la, lo))

\* Line 183 of app_controller.py: the tile is named for the list of the
\* view.
ListTile ==
    /\ tile_name = <<>>
    /\ tile_name' = format_tile_name(lat, lon)
    /\ UNCHANGED <<lat, lon, s3_key, file_name>>
    /\ UNCHANGED <<jobvars, appvars>>

KeyInit ==
    /\ lat \in (-MaxLat)..(MaxLat - 1)
    /\ lon \in (-MaxLon)..(MaxLon - 1)
    /\ s3_key = <<>>
    /\ file_name = <<>>
    /\ tile_name = <<>>
    /\ NoJob
    /\ AppIdle

KeyNext == FormatKey \/ ListTile

KeySpec == KeyInit /\ [][KeyNext]_vars

\* ------------------------------------------------------------- key claims
IsDigit(c) == \E d \in DOMAIN DigitChars : DigitChars[d] = c

DigitValue(c) == (CHOOSE d \in DOMAIN DigitChars : DigitChars[d] = c) - 1

\* The number a sequence of digit characters prints.
RECURSIVE Value(_)
Value(ds) ==
    IF ds = <<>> THEN 0
    ELSE 10 * Value(SubSeq(ds, 1, Len(ds) - 1)) + DigitValue(ds[Len(ds)])

\* The digits a text starts with.
RECURSIVE TakeDigits(_)
TakeDigits(text) ==
    IF text # <<>> /\ IsDigit(text[1])
    THEN <<text[1]>> \o TakeDigits(Tail(text))
    ELSE <<>>

\* The coordinate read back from a key: the hemisphere letter and the digit
\* field after the prefix, and those after the latitude's "_00_".
ParseKey(key) ==
    LET lat_digits == TakeDigits(SubSeq(key, 3, Len(key)))
        lon_at == 3 + Len(lat_digits) + 1
        lon_digits == TakeDigits(SubSeq(key, lon_at + 1, Len(key)))
    IN  << (IF key[2] = "S" THEN -1 ELSE 1) * Value(lat_digits),
           (IF key[lon_at] = "W" THEN -1 ELSE 1) * Value(lon_digits) >>

\* The coordinates that differ from (lat, lon) by a hemisphere only.
Mirrored == {<<-lat, lon>>, <<lat, -lon>>, <<-lat, -lon>>} \ {<<lat, lon>>}

\* C22: the key of a tile of the grid reads back as the coordinate it was
\* built from, so no two tiles share a key; in particular the tiles that
\* differ by a hemisphere have other keys.
C22_KeyRoundTrip ==
    s3_key # <<>> =>
       /\ ParseKey(s3_key) = <<lat, lon>>
       /\ \A c \in Mirrored : format_tile_s3_key(c[1], c[2]) # s3_key

\* The key of a tile of the southern and western hemispheres was formed.
C22_Witness ==
    /\ s3_key # <<>>
    /\ lat = -1
    /\ lon = -(MaxLon - 1)
    /\ ParseKey(s3_key) = <<lat, lon>>

\* C23: the key is built of the prefix, N or S and the absolute latitude in
\* two digits, "_00_", E or W and the absolute longitude in three digits,
\* "_00_DEM"; the remote key is base/base.tif and the file name base.tif.
C23_KeyLayout ==
    s3_key # <<>> =>
       /\ Len(s3_key) = 22
       /\ s3_key[1] = "Copernicus_DSM_COG_10_"
       /\ s3_key[2] = (IF lat >= 0 THEN "N" ELSE "S")
       /\ IsDigit(s3_key[3]) /\ IsDigit(s3_key[4])
       /\ Value(SubSeq(s3_key, 3, 4)) = Abs(lat)
       /\ s3_key[5] = "_00_"
       /\ s3_key[6] = (IF lon >= 0 THEN "E" ELSE "W")
       /\ IsDigit(s3_key[7]) /\ IsDigit(s3_key[8]) /\ IsDigit(s3_key[9])
       /\ Value(SubSeq(s3_key, 7, 9)) = Abs(lon)
       /\ s3_key[10] = "_00_DEM"
       /\ s3_key[11] = "/"
       /\ SubSeq(s3_key, 12, 21) = SubSeq(s3_key, 1, 10)
       /\ s3_key[22] = ".tif"
       /\ file_name = SubSeq(s3_key, 12, 22)
       /\ lat = 0 => SubSeq(s3_key, 2, 4) = <<"N", "0", "0">>
       /\ lon = 0 => SubSeq(s3_key, 6, 9) = <<"E", "0", "0", "0">>

\* The key of the tile at latitude 0 and longitude 0 was formed.
C23_Witness ==
    /\ s3_key # <<>>
    /\ lat = 0
    /\ lon = 0
    /\ SubSeq(s3_key, 2, 9) = <<"N", "0", "0", "_00_", "E", "0", "0", "0">>
    /\ file_name # <<>>

\* A step that delivers a finished notification, seen from the job that
\* sent it.
NotificationStep ==
    (events # <<>> /\ events' = Tail(events)) =>
       /\ worker # 0 => worker = Head(events)
       /\ msg[Head(events)] # "none" =>
             UNCHANGED <<worker, is_downloading, msg, ui, t_connected>>
       /\ worker' # worker => (worker' = 0 /\ ~ExecutesJob(worker))

ButtonStep ==
    (is_downloading /\ is_downloading' /\ download_button_enabled)
       => download_button_enabled'

\* C29: while the view is in its downloading state the button that requests
\* the stop stays enabled, whatever happens to the selection.
C29_StopButtonStaysEnabled == [][ButtonStep]_vars

\* C30: whenever the view is in its downloading state the controller holds
\* a worker whose finished notification is connected to the handler that
\* returns the view to idle.
C30_DownloadingViewHasWorker ==
    is_downloading => (worker # 0 /\ t_pc[worker] # "none" /\ t_connected[worker])

\* A step of the worker seen from the target directory: the file of a tile
\* that existed when the job began keeps its existence and its content, a
\* file that disappears is the file of the tile being downloaded, created by
\* this run, and no file other than the current tile's changes at all.
DirectoryStep ==
    /\ \A t \in DOMAIN tiles :
          existed[t] => (fexists'[t] /\ fbytes'[t] = fbytes[t])
    /\ \A t \in DOMAIN tiles :
          (fexists[t] /\ ~fexists'[t])
             => (~existed[t] /\ t = cur /\ tile_status[t] = "Downloading")
    /\ \A t \in DOMAIN tiles :
          (fexists'[t] # fexists[t] \/ fbytes'[t] # fbytes[t]) => t = cur

EstimateStep ==
    /\ pc \notin ({"start"} \cup SizePhase)
          => grand_total_size' = grand_total_size
    /\ last_progress' # last_progress
          => /\ last_progress'[2] = grand_total_size
             /\ last_progress # <<0, 0>> => last_progress'[2] = last_progress[2]
    /\ pc \in ({"start"} \cup SizePhase) => (net.get = 0 /\ net.write = 0)
    /\ pc \in TilePhase
          => net.head = Cardinality({t \in DOMAIN tiles : ~existed[t]})

\* C32: the estimated total is fixed when the size phase ends: every
\* byte-progress event of a job carries the same total, and no download
\* starts before the size phase has visited every tile of the job.
C32_EstimateFixedAfterSizePhase == [][EstimateStep]_vars

\* Two tiles were probed and downloaded whole; the last of several
\* byte-progress events carries the estimate made of both.
C32_Witness ==
    /\ N = 2
    /\ pc = "done"
    /\ net.head = 2
    /\ net.write >= 2
    /\ grand_total_size = rsize[1] + rsize[2]
    /\ grand_total_size > 0
    /\ last_progress = <<grand_total_size, grand_total_size>>

\* C35: the naming routines agree on every tile of the grid: the name the
\* controller lists, the name inside the key dem_downloader forms and the
\* name of the single-file application are the base name inside the
\* worker's key, and the file _handle_existing_files looks for is the file
\* the worker checks and writes, the listed name followed by ".tif".
C35_NamingRoutinesAgree ==
    (s3_key # <<>> /\ tile_name # <<>>) =>
       /\ tile_name = base_name(lat, lon)
       /\ s3_key = tile_name \o <<"/">> \o tile_name \o <<".tif">>
       /\ dem_downloader_s3_key(lat, lon) = s3_key
       /\ basename(dem_downloader_s3_key(lat, lon)) = file_name
       /\ MainWindow_format_tile_name(lat, lon) = tile_name
       /\ existing_file(lat, lon) = file_name
       /\ file_name = tile_name \o <<".tif">>

\* A tile south of the equator with a one-digit longitude west of Greenwich
\* has been listed and its key formed: both paddings and both letters of
\* the other hemispheres take part.
C35_Witness ==
    /\ lat = -5
    /\ lon = -7
    /\ tile_name = <<"Copernicus_DSM_COG_10_", "S", "0", "5", "_00_",
                     "W", "0", "0", "7", "_00_DEM">>
    /\ file_name = tile_name \o <<".tif">>

\* A step of the application seen from the tile lists of the workers whose
\* threads have not ended.
SnapshotStep ==
    \A w \in Workers :
       (t_pc[w] # "none" /\ isRunning(w)') =>
          /\ WorkerTiles(w)' = WorkerTiles(w)
          /\ total_tiles(w)' = total_tiles(w)

HighlightStep ==
    /\ highlighted = selected_tiles
    /\ highlighted' = selected_tiles'
    /\ selected_tiles' # selected_tiles
          => /\ selection_changed' = <<selected_tiles'>>
             /\ \/ selected_tiles' = {}
                \/ \E t \in MapTiles :
                      /\ selected_tiles' = toggle_selection(selected_tiles, t)
                      /\ (t \in highlighted') # (t \in highlighted)
    /\ \A t \in MapTiles :
          /\ toggle_selection(toggle_selection(selected_tiles, t), t) = selected_tiles
          /\ HighlightCommand(t, toggle_selection(selected_tiles, t),
                HighlightCommand(t, selected_tiles, highlighted)) = highlighted

====
